---- MODULE Spec2Model ----
(***************************************************************************)
(* felix: fetch a PubMed Central article, extract (HGNC id, disease)       *)
(* pairs per sentence, resolve them against the HGNC and MyGene registries *)
(* and write a tab-separated report.                                       *)
(*                                                                         *)
(* Strings are sequences of one-character strings.  JSON values whose      *)
(* Python type the code inspects (isinstance) are tagged records.          *)
(***************************************************************************)
EXTENDS Integers, Sequences, FiniteSets, TLC

VARIABLES
    variant,        \* "main" (main.py), "cli" (felix/cli.py), "direct" (Document(...)),
                    \* "extract" / "fetch" (the NLPAnalysis methods called on their own)
    noargs,         \* len(sys.argv) == 1
    pmc_id,         \* --pmc_id
    email,          \* --email
    output,         \* --output, or None
    pc,             \* position of the run
    err,            \* the uncaught exception that ended the run, or "none"
    exit_code,      \* process exit status, -1 while running
    dir_made,       \* out_path.parent.mkdir(...) has run
    raw_pmc_id,     \* Document.raw_pmc_id
    numeric_pmc_id, \* Document.numeric_pmc_id, -1 before it is set
    calls,          \* every external request made so far, in order
    doc,            \* the sentences the NLP engine yields for the article
    records,        \* result of extract_genes_and_diseases
    idx,            \* index of the record fetch_gene_metadata is working on
    hgnc_docs,      \* hgnc_docs of the current iteration
    seen,           \* per finished iteration, what the two registries answered
    res,            \* fetch_gene_metadata's res
    file,           \* contents of the output file, <<>> while not written
    written,        \* the output file has been opened for writing
    logged          \* the number logged as "unique HGNC IDs found", -1 before

vars == << variant, noargs, pmc_id, email, output, pc, err, exit_code, dir_made,
           raw_pmc_id, numeric_pmc_id, calls, doc, records, idx, hgnc_docs, seen,
           res, file, written, logged >>

None == "None"

\* ------------------------------------------------------------------ bounds
MaxIdLen == 5
MaxEmailLen == 5
MaxSents == 2
MaxIdsPerSent == 2
MaxAliases == 2
MaxCoords == 1
MaxRecords == 2

\* ----------------------------------------------------------------- strings
Digits == {"0", "1"}
PmcAlphabet == Digits \cup {"p", "m", "c", "P", "M", "C", "x"}
Whitespace == {" "}
EmailAlphabet == {"a", "@", "."} \cup Whitespace

StringsUpTo(A, n) == UNION {[1..k -> A] : k \in 0..n}

\* str.upper(), character by character
UpperChar(c) ==
    CASE c = "p" -> "P"
      [] c = "m" -> "M"
      [] c = "c" -> "C"
      [] c = "x" -> "X"
      [] c = "a" -> "A"
      [] OTHER -> c

Upper(s) == [i \in 1..Len(s) |-> UpperChar(s[i])]

PMC == <<"P", "M", "C">>

StartsWith(s, p) == Len(s) >= Len(p) /\ SubSeq(s, 1, Len(p)) = p

\* s[3:]
From3(s) == SubSeq(s, 4, Len(s))

\* str.isdigit(): non-empty and every character a digit
IsDigit(s) == Len(s) > 0 /\ \A i \in 1..Len(s) : s[i] \in Digits

\* all(char.isdigit() for char in s): true of the empty string
AllCharsDigit(s) == \A i \in 1..Len(s) : s[i] \in Digits

\* str.removeprefix("PMC")
RemovePrefixPMC(s) == IF StartsWith(s, PMC) THEN From3(s) ELSE s

DigitVal(c) == IF c = "1" THEN 1 ELSE 0

RECURSIVE IntOfDigits(_)
IntOfDigits(s) ==
    IF Len(s) = 0 THEN 0
    ELSE 10 * IntOfDigits(SubSeq(s, 1, Len(s) - 1)) + DigitVal(s[Len(s)])

\* int(s) raises ValueError unless s is a non-empty digit string
IntParses(s) == Len(s) > 0 /\ \A i \in 1..Len(s) : s[i] \in Digits

\* -------------------------------------------------------------- validators
VALID_PMC_ID_CHARS == Digits \cup {"P", "M", "C"}

E_CHARS == "ValueError: Invalid characters in PMC ID"
E_FORMAT == "ValueError: PMC ID is incorrectly formatted"
E_EMAIL == "ValueError: Invalid email format"
E_INT == "ValueError: invalid literal for int()"
E_PATH == "TypeError: expected str, bytes or os.PathLike object, not NoneType"
E_KEY == "KeyError"
E_NET == "requests.ConnectionError"
E_TIMEOUT == "requests.Timeout"
E_JSON == "requests.JSONDecodeError"
E_HTTP == "urllib.error.HTTPError"
E_URL == "urllib.error.URLError"
E_XML == "xml.etree.ElementTree.ParseError"

\* a variant of validate_pmc_id whose prefix check lets an empty suffix through
validate_pmc_id_EmptySuffix(s) ==
    LET u == Upper(s)
    IN  IF ~(\A i \in 1..Len(u) : u[i] \in VALID_PMC_ID_CHARS) THEN E_CHARS
        ELSE IF StartsWith(u, PMC) /\ ~AllCharsDigit(From3(u)) THEN E_FORMAT
        ELSE IF ~StartsWith(u, PMC) /\ ~AllCharsDigit(u) THEN E_FORMAT
        ELSE "none"

\* felix.validators.validate_pmc_id: the exception raised, or "none"
validate_pmc_id(s) ==
    LET u == Upper(s)
    IN  IF ~(\A i \in 1..Len(u) : u[i] \in VALID_PMC_ID_CHARS) THEN E_CHARS
        ELSE IF StartsWith(u, PMC) /\ ~IsDigit(From3(u)) THEN E_FORMAT
        ELSE IF ~StartsWith(u, PMC) /\ ~AllCharsDigit(u) THEN E_FORMAT
        ELSE "none"

\* Document.validate_pmc_id, on self.raw_pmc_id
Document_validate_pmc_id(raw) ==
    IF ~(\A i \in 1..Len(raw) : raw[i] \in VALID_PMC_ID_CHARS) THEN E_CHARS
    ELSE IF StartsWith(raw, PMC) /\ ~IsDigit(From3(raw)) THEN E_FORMAT
    ELSE IF ~StartsWith(raw, PMC) /\ ~AllCharsDigit(raw) THEN E_FORMAT
    ELSE "none"

EmailAtom(c) == c \notin ({"@"} \cup Whitespace)

\* a variant of the pattern without the part after the dot: ^[^@\s]+@[^@\s]+\.$
EMAIL_RE_fullmatch_NoTld(s) ==
    \E i \in 1..Len(s) : \E j \in 1..Len(s) :
        /\ s[i] = "@"
        /\ s[j] = "."
        /\ 1 < i /\ i + 1 < j /\ j = Len(s)
        /\ \A k \in 1..(i - 1) : EmailAtom(s[k])
        /\ \A k \in (i + 1)..(j - 1) : EmailAtom(s[k])

\* EMAIL_RE.fullmatch: ^[^@\s]+@[^@\s]+\.[^@\s]+$
\* i is where the literal "@" matches, j where the literal "." matches
EMAIL_RE_fullmatch(s) ==
    \E i \in 1..Len(s) : \E j \in 1..Len(s) :
        /\ s[i] = "@"
        /\ s[j] = "."
        /\ 1 < i /\ i + 1 < j /\ j < Len(s)
        /\ \A k \in 1..(i - 1) : EmailAtom(s[k])
        /\ \A k \in (i + 1)..(j - 1) : EmailAtom(s[k])
        /\ \A k \in (j + 1)..Len(s) : EmailAtom(s[k])

\* felix.validators.validate_email and Document.validate_email
validate_email(s) == IF ~EMAIL_RE_fullmatch(s) THEN E_EMAIL ELSE "none"

\* -------------------------------------------------------- external services
\* What a request can come back with.  net: the transport outcome; status and
\* json (the body parses as a JSON object) are read only when net = "ok".
Response(net, status, json, body) ==
    [net |-> net, status |-> status, json |-> json, body |-> body]

NetErrors == {"error", "timeout"}

\* requests.get raises on a transport failure only; .json() raises when the body
\* is not JSON.  A non-2xx status by itself raises nothing.
RequestsError(r) ==
    IF r.net = "error" THEN E_NET
    ELSE IF r.net = "timeout" THEN E_TIMEOUT
    ELSE IF ~r.json THEN E_JSON
    ELSE "none"

\* Entrez.efetch goes through urllib.request.urlopen, which raises on a
\* transport failure and on every non-2xx status.  Whatever the library does
\* inside the call is one request here.
EfetchError(r) ==
    IF r.net \in NetErrors THEN E_URL
    ELSE IF r.status # 200 THEN E_HTTP
    ELSE "none"

\* the call failed in the sense of "network error, timeout or non-2xx response"
CallFailed(c) == c.net \in NetErrors \/ c.status # 200

Call(svc, id, q, r) ==
    [svc |-> svc, id |-> id, q |-> q, net |-> r.net, status |-> r.status, json |-> r.json]

\* ------------------------------------------------------------------ the run
Abort(e) ==
    /\ pc' = "aborted"
    /\ err' = e
    /\ exit_code' = 1

\* main() of main.py and of felix/cli.py, up to the construction of Document.
\* The two differ in that only felix/cli.py calls the validators here and only
\* there can --output be missing (main.py requires it).
CliStart ==
    /\ pc = "start"
    /\ variant \in {"main", "cli"}
    /\ IF noargs
       THEN \* parser.print_help(); sys.exit(0)
            /\ pc' = "done"
            /\ exit_code' = 0
            /\ UNCHANGED << err, dir_made >>
       ELSE IF output = None
       THEN \* Path(None)
            /\ Abort(E_PATH)
            /\ UNCHANGED dir_made
       ELSE /\ dir_made' = TRUE
            /\ IF variant = "cli" /\ validate_pmc_id(pmc_id) # "none"
               THEN Abort(validate_pmc_id(pmc_id))
               ELSE IF variant = "cli" /\ validate_email(email) # "none"
               THEN Abort(validate_email(email))
               ELSE /\ pc' = "document"
                    /\ UNCHANGED << err, exit_code >>
    /\ UNCHANGED << variant, noargs, pmc_id, email, output, raw_pmc_id, numeric_pmc_id,
                    calls, doc, records, idx, hgnc_docs, seen, res, file, written, logged >>

\* a variant of Document.__init__ that does not call self.validate()
DocumentInit_NoValidate ==
    /\ pc = "document"
    /\ raw_pmc_id' = Upper(pmc_id)
    /\ IF ~IntParses(RemovePrefixPMC(Upper(pmc_id)))
       THEN Abort(E_INT) /\ UNCHANGED numeric_pmc_id
       ELSE /\ numeric_pmc_id' = IntOfDigits(RemovePrefixPMC(Upper(pmc_id)))
            /\ pc' = "fetch_xml"
            /\ UNCHANGED << err, exit_code >>
    /\ UNCHANGED << variant, noargs, pmc_id, email, output, dir_made,
                    calls, doc, records, idx, hgnc_docs, seen, res, file, written, logged >>

\* Document.__init__ up to and including the integer conversion
DocumentInit ==
    /\ pc = "document"
    /\ raw_pmc_id' = Upper(pmc_id)
    /\ IF validate_email(email) # "none"
       THEN Abort(validate_email(email)) /\ UNCHANGED numeric_pmc_id
       ELSE IF Document_validate_pmc_id(Upper(pmc_id)) # "none"
       THEN Abort(Document_validate_pmc_id(Upper(pmc_id))) /\ UNCHANGED numeric_pmc_id
       ELSE IF ~IntParses(RemovePrefixPMC(Upper(pmc_id)))
       THEN Abort(E_INT) /\ UNCHANGED numeric_pmc_id
       ELSE /\ numeric_pmc_id' = IntOfDigits(RemovePrefixPMC(Upper(pmc_id)))
            /\ pc' = "fetch_xml"
            /\ UNCHANGED << err, exit_code >>
    /\ UNCHANGED << variant, noargs, pmc_id, email, output, dir_made,
                    calls, doc, records, idx, hgnc_docs, seen, res, file, written, logged >>

\* ---------------------------------------------------------------- extraction
GeneIds == {"HGNC:1", "HGNC:2"}
Diseases == {"d1", "d2"}

\* A sentence as the extraction sees it: re.findall(HGNC_PATTERN, sent.text), a
\* list that may repeat an id, and the texts of its DISEASE entities
Sentences ==
    [ids : StringsUpTo(GeneIds, MaxIdsPerSent), found : SUBSET Diseases]

Documents == StringsUpTo(Sentences, MaxSents)

\* hgnc_disease_map as a dict: its keys in insertion order, and their sets
EmptyMap == [keys |-> <<>>, sets |-> [g \in {} |-> {}]]

InKeys(m, g) == \E i \in 1..Len(m.keys) : m.keys[i] = g

\* a variant that assigns the sentence's set instead of merging it
MapUpdate_Assign(m, g, found) ==
    IF InKeys(m, g)
    THEN [keys |-> m.keys, sets |-> [m.sets EXCEPT ![g] = found]]
    ELSE [keys |-> Append(m.keys, g),
          sets |-> [h \in DOMAIN m.sets \cup {g} |->
                        IF h = g THEN found ELSE m.sets[h]]]

\* hgnc_disease_map[hgnc_id].update(found) on a defaultdict(set)
MapUpdate(m, g, found) ==
    IF InKeys(m, g)
    THEN [keys |-> m.keys, sets |-> [m.sets EXCEPT ![g] = @ \cup found]]
    ELSE [keys |-> Append(m.keys, g),
          sets |-> [h \in DOMAIN m.sets \cup {g} |->
                        IF h = g THEN found ELSE m.sets[h]]]

\* for hgnc_id in hgnc_ids: ... , over the first n ids of the sentence
RECURSIVE MapSentence(_, _, _)
MapSentence(m, sent, n) ==
    IF n = 0 THEN m
    ELSE MapUpdate(MapSentence(m, sent, n - 1), sent.ids[n], sent.found)

\* for sent in doc.sents: ... , over the first n sentences; a sentence with no
\* id is skipped by the `continue`
RECURSIVE MapDocument(_, _)
MapDocument(d, n) ==
    IF n = 0 THEN EmptyMap
    ELSE IF d[n].ids = <<>> THEN MapDocument(d, n - 1)
    ELSE MapSentence(MapDocument(d, n - 1), d[n], Len(d[n].ids))

\* the orders in which iterating a Python set can yield its elements
SetOrders(S) ==
    {f \in [1..Cardinality(S) -> S] : \A i, j \in 1..Cardinality(S) : f[i] = f[j] => i = j}

\* the pairs appended for one key of the map
PairsOfKey(g, ds) ==
    IF ds # {}
    THEN {[i \in 1..Len(o) |-> <<g, o[i]>>] : o \in SetOrders(ds)}
    ELSE {<< <<g, "">> >>}

\* for hgnc_id, diseases in hgnc_disease_map.items(): ... , from key n on
RECURSIVE Flatten(_, _)
Flatten(m, n) ==
    IF n > Len(m.keys) THEN {<<>>}
    ELSE {h \o t : h \in PairsOfKey(m.keys[n], m.sets[m.keys[n]]), t \in Flatten(m, n + 1)}

\* NLPAnalysis.extract_genes_and_diseases: every list it can return for d
extract_genes_and_diseases(d) == Flatten(MapDocument(d, Len(d)), 1)

\* ---------------------------------------------------------------- registries
\* JSON values whose Python type the code inspects
Absent == [tag |-> "absent"]
JStr(v) == [tag |-> "str", v |-> v]
JObj(v) == [tag |-> "obj", v |-> v]
JList(v) == [tag |-> "list", v |-> v]

SymbolOf(id) == IF id = "HGNC:1" THEN "SYM1" ELSE "SYM2"
NameOf(id) == IF id = "HGNC:1" THEN "gene one" ELSE "gene two"
EnsemblOf(id) == IF id = "HGNC:1" THEN "ENSG1" ELSE "ENSG2"

\* one document of the HGNC answer's response.docs
GeneRecord(id, alias) ==
    [symbol |-> SymbolOf(id), name |-> NameOf(id), alias_symbol |-> alias,
     ensembl_gene_id |-> EnsemblOf(id)]

\* one hit of the MyGene answer
MyGeneRecord(pos38, pos19) == [genomic_pos |-> pos38, genomic_pos_hg19 |-> pos19]

AliasAt(i) == IF i = 1 THEN "A1" ELSE IF i = 2 THEN "A2" ELSE "A3"
CoordAt(i) ==
    [chr |-> IF i = 1 THEN "1" ELSE "X", start |-> 100 * i, end |-> 100 * i + 50, strand |-> 1]

\* the shapes the alias_symbol field comes in: missing, a string, a list
AliasShapes ==
    {Absent, JStr(AliasAt(1))} \cup {JList([i \in 1..n |-> AliasAt(i)]) : n \in 0..MaxAliases}

\* the shapes a genomic_pos field comes in: missing, one object, a list
PosShapes ==
    {Absent, JObj(CoordAt(1))} \cup {JList([i \in 1..n |-> CoordAt(i)]) : n \in 0..MaxCoords}

OkResponse(body) == Response("ok", 200, TRUE, body)

\* a transport error, a timeout, a non-2xx answer with a non-JSON body, a non-2xx
\* answer with a JSON error object (no response / hits member), a 200 answer
\* whose body is not JSON
Failures ==
    {Response("error", 0, FALSE, <<>>), Response("timeout", 0, FALSE, <<>>),
     Response("ok", 500, FALSE, <<>>), Response("ok", 500, TRUE, <<>>),
     Response("ok", 200, FALSE, <<>>)}

\* body: hgnc_data.get("response", {}).get("docs", [])
HgncResponses(id, aliases, failures) ==
    failures \cup {OkResponse(<<>>)} \cup {OkResponse(<<GeneRecord(id, a)>>) : a \in aliases}

\* body: mygene_r.json().get("hits", [])
MyGeneResponses(positions, failures) ==
    failures \cup {OkResponse(<<>>)}
             \cup {OkResponse(<<MyGeneRecord(p[1], p[2])>>) : p \in positions}

\* alias_symbols after `gene_record.get("alias_symbol", "")` and the isinstance wrap
AliasList(a) ==
    IF a.tag = "absent" THEN <<"">>
    ELSE IF a.tag = "str" THEN <<a.v>>
    ELSE a.v

\* a coordinate field after the `not isinstance(..., list)` wrap
CoordList(c) == IF c.tag = "list" THEN c.v ELSE <<c.v>>

\* the rows appended for one assembly: for coord in coords_list: for alias in alias_symbols
AssemblyRows(assembly, coords, aliases, hgnc_id, gene, disease) ==
    [k \in 1..(Len(coords) * Len(aliases)) |->
        LET coord == coords[((k - 1) \div Len(aliases)) + 1]
            alias == aliases[((k - 1) % Len(aliases)) + 1]
        IN  << coord.chr, coord.start, coord.end, coord.strand, assembly, hgnc_id,
               gene.symbol, gene.name, alias, gene.ensembl_gene_id, disease >>]

\* mygene_record["genomic_pos"] / ["genomic_pos_hg19"] raise KeyError on a missing key
RecordRaises(mygene) ==
    mygene.genomic_pos.tag = "absent" \/ mygene.genomic_pos_hg19.tag = "absent"

\* the body of `if hgnc_docs and my_gene_result:` for one record
RecordRows(hgnc_id, disease, gene, mygene) ==
    AssemblyRows("hg38", CoordList(mygene.genomic_pos), AliasList(gene.alias_symbol),
                 hgnc_id, gene, disease)
    \o AssemblyRows("hg19", CoordList(mygene.genomic_pos_hg19), AliasList(gene.alias_symbol),
                    hgnc_id, gene, disease)

\* `if hgnc_docs and my_gene_result:`
BothMatched(docs, hits) == docs # <<>> /\ hits # <<>>

OUTPUT_HEADER ==
    << "chrom", "start", "end", "strand", "assembly", "hgnc_id", "symbol", "name",
       "alias", "ensembl", "disease" >>

\* ------------------------------------------------------- the rest of the run
Article(parses, sents) == [parses |-> parses, sents |-> sents]

\* where the run is once the loop of fetch_gene_metadata stands at record i
LoopPc(rs, i) ==
    IF i <= Len(rs) THEN "hgnc_get"
    ELSE IF variant = "fetch" THEN "returned"
    ELSE "write"

\* The rest of Document.__init__: fetch_pmc_xml, xml_to_paragraphs, fetch_pmc_title.
\* articles: the articles the service can answer with.
FetchPmcXml(articles) ==
    /\ pc = "fetch_xml"
    /\ \E r \in Failures \cup {OkResponse(a) : a \in articles} :
        /\ calls' = Append(calls, Call("efetch", numeric_pmc_id, "", r))
        /\ IF EfetchError(r) # "none"
           THEN Abort(EfetchError(r)) /\ UNCHANGED doc
           ELSE IF ~r.json \/ ~r.body.parses
           THEN \* ET.fromstring in xml_to_paragraphs
                Abort(E_XML) /\ UNCHANGED doc
           ELSE /\ doc' = r.body.sents
                /\ pc' = (IF variant = "direct" THEN "done" ELSE "extract")
                /\ UNCHANGED << err, exit_code >>
    /\ UNCHANGED << variant, noargs, pmc_id, email, output, dir_made, raw_pmc_id,
                    numeric_pmc_id, records, idx, hgnc_docs, seen, res, file, written,
                    logged >>

\* analysis.extract_genes_and_diseases(document)
ExtractGenesAndDiseases ==
    /\ pc = "extract"
    /\ \E rs \in extract_genes_and_diseases(doc) :
        /\ records' = rs
        /\ idx' = 1
        /\ pc' = (IF variant = "extract" THEN "extracted" ELSE LoopPc(rs, 1))
    /\ UNCHANGED << variant, noargs, pmc_id, email, output, err, exit_code, dir_made,
                    raw_pmc_id, numeric_pmc_id, calls, doc, hgnc_docs, seen, res, file,
                    written, logged >>

\* fetch_gene_metadata, one iteration, lines 157-160: the HGNC request
HgncGet(aliases, failures) ==
    /\ pc = "hgnc_get"
    /\ \E r \in HgncResponses(records[idx][1], aliases, failures) :
        /\ calls' = Append(calls, Call("hgnc", -1, records[idx][1], r))
        /\ IF RequestsError(r) # "none"
           THEN Abort(RequestsError(r)) /\ UNCHANGED hgnc_docs
           ELSE /\ hgnc_docs' = r.body
                /\ pc' = "mygene_get"
                /\ UNCHANGED << err, exit_code >>
    /\ UNCHANGED << variant, noargs, pmc_id, email, output, dir_made, raw_pmc_id,
                    numeric_pmc_id, doc, records, idx, seen, res, file, written, logged >>

\* a variant of the iteration that starts res afresh when a pair is not matched
MyGeneGet_ResetOnMiss(positions, failures) ==
    /\ pc = "mygene_get"
    /\ \E r \in MyGeneResponses(positions, failures) :
        /\ calls' = Append(calls, Call("mygene", -1, records[idx][1], r))
        /\ IF RequestsError(r) # "none"
           THEN Abort(RequestsError(r)) /\ UNCHANGED << res, idx, seen >>
           ELSE IF BothMatched(hgnc_docs, r.body) /\ RecordRaises(r.body[1])
           THEN Abort(E_KEY) /\ UNCHANGED << res, idx >>
                /\ seen' = Append(seen, [docs |-> hgnc_docs, hits |-> r.body])
           ELSE /\ res' = (IF BothMatched(hgnc_docs, r.body)
                           THEN res \o RecordRows(records[idx][1], records[idx][2],
                                                  hgnc_docs[1], r.body[1])
                           ELSE <<>>)
                /\ seen' = Append(seen, [docs |-> hgnc_docs, hits |-> r.body])
                /\ idx' = idx + 1
                /\ pc' = LoopPc(records, idx + 1)
                /\ UNCHANGED << err, exit_code >>
    /\ UNCHANGED << variant, noargs, pmc_id, email, output, dir_made, raw_pmc_id,
                    numeric_pmc_id, doc, records, hgnc_docs, file, written, logged >>

\* fetch_gene_metadata, one iteration, lines 161-206: the MyGene request and the rows
MyGeneGet(positions, failures) ==
    /\ pc = "mygene_get"
    /\ \E r \in MyGeneResponses(positions, failures) :
        /\ calls' = Append(calls, Call("mygene", -1, records[idx][1], r))
        /\ IF RequestsError(r) # "none"
           THEN Abort(RequestsError(r)) /\ UNCHANGED << res, idx, seen >>
           ELSE IF BothMatched(hgnc_docs, r.body) /\ RecordRaises(r.body[1])
           THEN Abort(E_KEY) /\ UNCHANGED << res, idx >>
                /\ seen' = Append(seen, [docs |-> hgnc_docs, hits |-> r.body])
           ELSE /\ res' = (IF BothMatched(hgnc_docs, r.body)
                           THEN res \o RecordRows(records[idx][1], records[idx][2],
                                                  hgnc_docs[1], r.body[1])
                           ELSE res)
                /\ seen' = Append(seen, [docs |-> hgnc_docs, hits |-> r.body])
                /\ idx' = idx + 1
                /\ pc' = LoopPc(records, idx + 1)
                /\ UNCHANGED << err, exit_code >>
    /\ UNCHANGED << variant, noargs, pmc_id, email, output, dir_made, raw_pmc_id,
                    numeric_pmc_id, doc, records, hgnc_docs, file, written, logged >>

\* main(): the `with out_path.open("w", ...)` block
WriteReport ==
    /\ pc = "write"
    /\ written' = TRUE
    /\ file' = <<OUTPUT_HEADER>> \o res
    /\ pc' = "log"
    /\ UNCHANGED << variant, noargs, pmc_id, email, output, err, exit_code, dir_made,
                    raw_pmc_id, numeric_pmc_id, calls, doc, records, idx, hgnc_docs, seen,
                    res, logged >>

\* unique_hgnc_ids = {row[0] for row in metadata} if metadata else {}
unique_hgnc_ids(metadata) == {metadata[i][1] : i \in 1..Len(metadata)}

\* main(): the last two lines, then the process ends
LogUniqueIds ==
    /\ pc = "log"
    /\ logged' = Cardinality(unique_hgnc_ids(res))
    /\ pc' = "done"
    /\ exit_code' = 0
    /\ UNCHANGED << variant, noargs, pmc_id, email, output, err, dir_made,
                    raw_pmc_id, numeric_pmc_id, calls, doc, records, idx, hgnc_docs, seen,
                    res, file, written >>

\* ------------------------------------------------------------ initial states
Fresh ==
    /\ err = "none"
    /\ exit_code = -1
    /\ dir_made = FALSE
    /\ raw_pmc_id = <<>>
    /\ numeric_pmc_id = -1
    /\ calls = <<>>
    /\ doc = <<>>
    /\ records = <<>>
    /\ idx = 0
    /\ hgnc_docs = <<>>
    /\ seen = <<>>
    /\ res = <<>>
    /\ file = <<>>
    /\ written = FALSE
    /\ logged = -1

GoodPmcId == <<"P", "M", "C", "1">>
GoodEmail == <<"a", "@", "a", ".", "a">>
GoodOutput == "out.tsv"

\* a run is started from the command line (either script) or by constructing
\* a Document directly
Started(ids, emails) ==
    /\ variant \in {"main", "cli", "direct"}
    /\ noargs \in (IF variant = "direct" THEN {FALSE} ELSE {FALSE, TRUE})
    /\ pmc_id \in (IF noargs THEN {<<>>} ELSE ids)
    /\ email \in (IF noargs THEN {<<>>} ELSE emails)
    /\ output \in (IF variant = "cli" /\ ~noargs THEN {None, GoodOutput}
                   ELSE IF variant = "main" /\ ~noargs THEN {GoodOutput}
                   ELSE {None})
    /\ pc = (IF variant = "direct" THEN "document" ELSE "start")
    /\ Fresh

\* every identifier with one well-formed email, and every email with one
\* well-formed identifier
InitValidate ==
    \/ Started(StringsUpTo(PmcAlphabet, MaxIdLen), {GoodEmail})
    \/ Started({GoodPmcId}, StringsUpTo(EmailAlphabet, MaxEmailLen))

NextValidate == CliStart \/ DocumentInit

SpecValidate == InitValidate /\ [][NextValidate]_vars

\* ----------------------------------------------------------- extraction alone
InitExtract ==
    /\ variant = "extract"
    /\ noargs = FALSE
    /\ pmc_id = <<>>
    /\ email = <<>>
    /\ output = None
    /\ pc = "extract"
    /\ err = "none" /\ exit_code = -1 /\ dir_made = FALSE /\ raw_pmc_id = <<>>
    /\ numeric_pmc_id = -1 /\ calls = <<>>
    /\ doc \in Documents
    /\ records = <<>> /\ idx = 0 /\ hgnc_docs = <<>> /\ seen = <<>> /\ res = <<>>
    /\ file = <<>> /\ written = FALSE /\ logged = -1

NextExtract == ExtractGenesAndDiseases

SpecExtract == InitExtract /\ [][NextExtract]_vars

\* ------------------------------------------------- fetch_gene_metadata alone
FetchPairs == { <<"HGNC:1", "d1">>, <<"HGNC:2", "">> }

\* the coordinate fields of a hit: every shape of each field against a plain
\* value of the other
FetchPositions ==
    {<<p, JList(<<>>)>> : p \in PosShapes} \cup {<<JObj(CoordAt(1)), p>> : p \in PosShapes}

InitFetch ==
    /\ variant = "fetch"
    /\ noargs = FALSE
    /\ pmc_id = <<>>
    /\ email = <<>>
    /\ output = None
    /\ err = "none" /\ exit_code = -1 /\ dir_made = FALSE /\ raw_pmc_id = <<>>
    /\ numeric_pmc_id = -1 /\ calls = <<>> /\ doc = <<>>
    /\ records \in StringsUpTo(FetchPairs, MaxRecords)
    /\ idx = 1
    /\ pc = LoopPc(records, 1)
    /\ hgnc_docs = <<>> /\ seen = <<>> /\ res = <<>>
    /\ file = <<>> /\ written = FALSE /\ logged = -1

NextFetch == HgncGet(AliasShapes, {}) \/ MyGeneGet(FetchPositions, {})

SpecFetch == InitFetch /\ [][NextFetch]_vars

\* ------------------------------------------------------------- the whole run
RunPmcIds ==
    { <<>>, <<"1">>, <<"P", "M", "C", "0", "1">>, <<"p", "m", "c", "1">>,
      <<"P", "M", "C">>, <<"1", "x">> }

RunEmails ==
    { GoodEmail, <<"a", "@", "a">>, <<"a", "a", ".", "a">>, <<"a", " ", "@", "a", ".", "a">> }

RunArticles ==
    { Article(FALSE, <<>>),
      Article(TRUE, <<>>),
      Article(TRUE, << [ids |-> <<"HGNC:1">>, found |-> {"d1"}] >>),
      Article(TRUE, << [ids |-> <<"HGNC:1", "HGNC:2">>, found |-> {"d1"}] >>) }

RunAliases == {JStr(AliasAt(1))}

RunPositions == { <<JObj(CoordAt(1)), JList(<<>>)>>, <<JList(<<CoordAt(1), CoordAt(2)>>), Absent>> }

Init == Started(RunPmcIds, RunEmails)

Next ==
    \/ CliStart
    \/ DocumentInit
    \/ FetchPmcXml(RunArticles)
    \/ ExtractGenesAndDiseases
    \/ HgncGet(RunAliases, Failures)
    \/ MyGeneGet(RunPositions, Failures)
    \/ WriteReport
    \/ LogUniqueIds

Spec == Init /\ [][Next]_vars

\* ================================================================== claims
\* shapes of an identifier, stated on the input string itself
IsPmcLetter(c, l) == UpperChar(c) = l
HasPmcPrefix(s) ==
    Len(s) >= 3 /\ IsPmcLetter(s[1], "P") /\ IsPmcLetter(s[2], "M") /\ IsPmcLetter(s[3], "C")
OnlyDigitsFrom(s, k) == Len(s) >= k /\ \A i \in k..Len(s) : s[i] \in Digits
HasForeignChar(s) == \E i \in 1..Len(s) : UpperChar(s[i]) \notin (Digits \cup {"P", "M", "C"})
HasNonDigit(s) == \E i \in 1..Len(s) : s[i] \notin Digits

WellFormedPmcId(s) == OnlyDigitsFrom(s, 1) \/ (HasPmcPrefix(s) /\ OnlyDigitsFrom(s, 4))
IllFormedPmcId(s) ==
    \/ HasForeignChar(s)
    \/ HasPmcPrefix(s) /\ ~OnlyDigitsFrom(s, 4)
    \/ ~HasPmcPrefix(s) /\ HasNonDigit(s)

\* the shape local@domain.tld, stated on the input string itself
CountOf(s, c) == Cardinality({i \in 1..Len(s) : s[i] = c})
AtIndex(s) == CHOOSE i \in 1..Len(s) : s[i] = "@"
WellFormedEmail(s) ==
    /\ \A i \in 1..Len(s) : s[i] \notin Whitespace
    /\ CountOf(s, "@") = 1
    /\ AtIndex(s) > 1
    /\ \E k \in (AtIndex(s) + 2)..(Len(s) - 1) : s[k] = "."

PmcErrors == {E_CHARS, E_FORMAT}

\* validators.validate_pmc_id has run on pmc_id (felix/cli.py, with an output path)
CliValidated == variant = "cli" /\ ~noargs /\ output # None /\ pc # "start"

\* Document.validate has run
DocumentValidated == ~noargs /\ pc \notin {"start", "document"} /\ (variant = "cli" => output # None)

\* C1: validate_pmc_id, and Document.validate_pmc_id on the uppercased id, accept
\* every string of one or more digits and every 'PMC' (any case) followed by one
\* or more digits, and raise ValueError on a string with a character outside
\* digits and P/M/C, on a prefixed string whose suffix is not all digits (the
\* empty suffix included) and on an unprefixed string with a non-digit.
C1_PmcIdValidator ==
    /\ CliValidated =>
        /\ WellFormedPmcId(pmc_id) => err \notin PmcErrors
        /\ IllFormedPmcId(pmc_id) => pc = "aborted" /\ err \in PmcErrors
    /\ DocumentValidated /\ WellFormedEmail(email) =>
        /\ WellFormedPmcId(pmc_id) => err \notin PmcErrors
        /\ IllFormedPmcId(pmc_id) => pc = "aborted" /\ err \in PmcErrors

\* C1 witness: the bare prefix in mixed case was rejected by the command line's
\* validator
C1_Witness ==
    /\ variant = "cli"
    /\ pc = "aborted"
    /\ err = E_FORMAT
    /\ pmc_id = <<"p", "M", "c">>

\* C2: validate_email succeeds exactly on the strings of shape local@domain.tld
\* (no whitespace, exactly one '@', non-empty local part, a '.' in the domain part
\* with a character before and after it) and raises ValueError on every other.
C2_EmailValidator ==
    /\ CliValidated /\ WellFormedPmcId(pmc_id) =>
        /\ WellFormedEmail(email) <=> err # E_EMAIL
        /\ ~WellFormedEmail(email) => pc = "aborted"
    /\ DocumentValidated /\ variant # "cli" =>
        /\ WellFormedEmail(email) <=> err # E_EMAIL
        /\ ~WellFormedEmail(email) => pc = "aborted"

\* C2 witness: an address with '@' and a '.' but nothing after the dot was rejected
C2_Witness ==
    /\ variant = "cli"
    /\ pc = "aborted"
    /\ err = E_EMAIL
    /\ email = <<"a", "@", "a", ".">>

\* the integer an identifier stands for: its digits, read without the prefix
DigitsOf(s) == IF HasPmcPrefix(s) THEN SubSeq(s, 4, Len(s)) ELSE s

\* C10: every identifier that passes validate_pmc_id (the empty string included)
\* is turned into the numeric id by Document.__init__ without error, so that the
\* article fetch follows, and the id is the integer value of its digits whatever
\* the case or presence of the prefix.
C10_ValidatedIdConverts ==
    (DocumentValidated /\ validate_pmc_id(pmc_id) = "none" /\ WellFormedEmail(email)) =>
        /\ pc = "fetch_xml"
        /\ err = "none"
        /\ numeric_pmc_id = IntOfDigits(DigitsOf(pmc_id))

\* C3: when the PMC id or the email is syntactically invalid the run aborts with
\* an error (non-zero exit) and never makes a network call: it never gets past
\* the validation, whichever way it was started.
C3_InvalidInputNoNetwork ==
    (~noargs /\ (~WellFormedPmcId(pmc_id) \/ ~WellFormedEmail(email))) =>
        /\ calls = <<>>
        /\ pc \in {"start", "document", "aborted"}
        /\ pc = "aborted" => (exit_code = 1 /\ err # "none")
        /\ ~written

\* C3 witness: a directly constructed Document with a well-formed id and an email
\* without a dot in its domain aborted before any call
C3_Witness ==
    /\ variant = "direct"
    /\ pmc_id = <<"p", "m", "c", "1">>
    /\ email = <<"a", "@", "a">>
    /\ pc = "aborted"
    /\ exit_code = 1
    /\ calls = <<>>

\* the elements of a list, and whether it repeats one
Elements(s) == {s[i] : i \in 1..Len(s)}
NoRepeat(s) == \A i, j \in 1..Len(s) : s[i] = s[j] => i = j

Mentions(d, g) == {i \in 1..Len(d) : g \in Elements(d[i].ids)}

\* the pairs the extraction is to return for a document
ExpectedPairs(d) ==
    {p \in GeneIds \X Diseases : \E i \in Mentions(d, p[1]) : p[2] \in d[i].found}
    \cup {<<g, "">> : g \in {h \in GeneIds :
                               /\ Mentions(d, h) # {}
                               /\ \A i \in Mentions(d, h) : d[i].found = {}}}

\* C4: the pairs returned by extract_genes_and_diseases are exactly the (g, d)
\* with some sentence containing both id g and disease d, together with (g, '')
\* for every id g that occurs and has no disease in any of its sentences; no
\* pair is returned twice.
C4_ExtractedPairs ==
    pc = "extracted" =>
        /\ Elements(records) = ExpectedPairs(doc)
        /\ NoRepeat(records)

\* C4 witness: two ids share a sentence with one disease, and one of them occurs
\* again in a later sentence without any disease
C4_Witness ==
    /\ pc = "extracted"
    /\ doc = << [ids |-> <<"HGNC:1", "HGNC:2">>, found |-> {"d1"}],
                [ids |-> <<"HGNC:2">>, found |-> {}] >>
    /\ Elements(records) = { <<"HGNC:1", "d1">>, <<"HGNC:2", "d1">> }

\* the number of entries of a JSON field: none when missing, one for a scalar
\* or a single object, the length of a list
Entries(f) == IF f.tag = "absent" THEN 0 ELSE IF f.tag = "list" THEN Len(f.v) ELSE 1

\* the rows record i is to contribute: (hg38 entries + hg19 entries) x aliases
ExpectedCount(i) ==
    IF BothMatched(seen[i].docs, seen[i].hits)
    THEN (Entries(seen[i].hits[1].genomic_pos) + Entries(seen[i].hits[1].genomic_pos_hg19))
         * Entries(seen[i].docs[1].alias_symbol)
    ELSE 0

RECURSIVE ExpectedBefore(_)
ExpectedBefore(i) == IF i <= 1 THEN 0 ELSE ExpectedBefore(i - 1) + ExpectedCount(i - 1)

\* C5: a pair matched in both registries yields exactly (hg38 entries + hg19
\* entries) x (aliases) rows, a scalar alias or a single coordinate object
\* counting as one, and each of them carries the pair's hgnc_id, symbol, name,
\* cross-reference id and disease.
C5_RowsPerMatchedPair ==
    /\ err # E_KEY
    /\ pc = "returned" =>
        /\ Len(res) = ExpectedBefore(Len(records) + 1)
        /\ \A i \in 1..Len(records) :
             \A k \in (ExpectedBefore(i) + 1)..ExpectedBefore(i + 1) :
                /\ res[k][6] = records[i][1]
                /\ res[k][7] = seen[i].docs[1].symbol
                /\ res[k][8] = seen[i].docs[1].name
                /\ res[k][10] = seen[i].docs[1].ensembl_gene_id
                /\ res[k][11] = records[i][2]

\* the rows of the first n pairs, the pairs not matched in both registries left out
RECURSIVE RowsOfMatched(_)
RowsOfMatched(n) ==
    IF n = 0 THEN <<>>
    ELSE RowsOfMatched(n - 1)
         \o (IF BothMatched(seen[n].docs, seen[n].hits)
             THEN RecordRows(records[n][1], records[n][2], seen[n].docs[1], seen[n].hits[1])
             ELSE <<>>)

\* C6: a pair with no match in the primary registry or no hit in the secondary
\* one raises no error and contributes no row, whatever the other registry
\* answered, and leaves the rows of the other pairs alone: what
\* fetch_gene_metadata returns is the concatenation, in input order, of the rows
\* of the pairs matched in both.
C6_UnmatchedPairsSkipped ==
    /\ (pc = "aborted" /\ Len(seen) > 0) =>
            BothMatched(seen[Len(seen)].docs, seen[Len(seen)].hits)
    /\ pc \in {"returned", "hgnc_get", "mygene_get"} =>
            /\ Len(seen) = idx - 1
            /\ res = RowsOfMatched(Len(seen))

\* C6 witness: the first pair was matched in both registries and gave rows, the
\* second was found in the primary registry only, and the rows are still there
C6_Witness ==
    /\ pc = "returned"
    /\ Len(seen) = 2
    /\ BothMatched(seen[1].docs, seen[1].hits)
    /\ seen[2].docs # <<>>
    /\ seen[2].hits = <<>>
    /\ Len(res) = 2

\* C7: when an external call ends in a network error, a timeout or a non-2xx
\* response the run aborts there: it is the last call made, and the output file
\* is never written.
C7_FailedCallAborts ==
    \A i \in 1..Len(calls) :
        CallFailed(calls[i]) => (i = Len(calls) /\ pc = "aborted" /\ ~written)

\* C8: with felix/cli.py, leaving out --output is never an error: a run with a
\* valid id and email does not abort on it.
C8_OutputOptional ==
    (variant = "cli" /\ ~noargs /\ output = None
        /\ WellFormedPmcId(pmc_id) /\ WellFormedEmail(email) /\ pc # "start") =>
        (pc # "aborted" /\ err # E_PATH)

\* C9: the number logged as 'unique HGNC IDs found' is the number of distinct
\* hgnc_id values among the rows written (0 when there are none).
C9_LoggedUniqueIds ==
    (pc = "done" /\ written) =>
        logged = Cardinality({res[i][6] : i \in 1..Len(res)})

====
